---- MODULE Spec2Model ----
(***************************************************************************)
(* Model of relay_app.py: the FastAPI webhook relay.                       *)
(*                                                                         *)
(* POST /zendesk-webhook is handled in the steps at which the coroutine    *)
(* can be suspended: the verify_credentials dependency, the X-Relay-Token  *)
(* check, `await request.json()`, entering `async with AsyncClient`,       *)
(* `await client.post(...)`, and the completion of that call (a response   *)
(* or an exception), which is classified, leaves the `async with` block    *)
(* and returns.  Several requests are handled concurrently.                *)
(***************************************************************************)
EXTENDS Integers, Sequences, FiniteSets, TLC

-----------------------------------------------------------------------------
(* Bounds *)

\* Number of inbound requests handled (concurrently) in one behaviour.
MaxReqs == 2

Reqs == 1..MaxReqs

\* Number of diagnostic requests (GET /test-connection, GET /debug-ip) handled
\* in one behaviour.
MaxDiags == 1

Diags == 1..MaxDiags

-----------------------------------------------------------------------------
(* Values *)

\* Python's None (os.getenv of an unset variable, Header(None) of a missing header).
None == "<None>"

\* repr() of a str or of None, as the f-string of the 403 detail formats it.
Repr(v) == IF v = None THEN "None" ELSE "'" \o v \o "'"

\* Values an X-Relay-Token header can carry; None is the missing header.
HeaderTokens == {None, "t1", "t2"}

\* Authorization header of a request: None (missing or malformed, rejected by
\* HTTPBasic itself) or the decoded username and password.
NoBasic == [present |-> FALSE, username |-> "", password |-> ""]
Basic(u, p) == [present |-> TRUE, username |-> u, password |-> p]
BasicInputs == {NoBasic, Basic("admin", "changeme"), Basic("admin", "wrong"),
                Basic("zendesk", "changeme")}

\* Process configuration, read once from the environment at import time.
\* RELAY_TOKEN and N8N_ENDPOINT have no default (None when unset);
\* WEBHOOK_USERNAME and WEBHOOK_PASSWORD default to "admin" / "changeme".
Endpoint == "https://n8n.internal/webhook/zendesk"
Config(tok, user, pwd, url) ==
    [RELAY_TOKEN |-> tok, WEBHOOK_USERNAME |-> user,
     WEBHOOK_PASSWORD |-> pwd, N8N_ENDPOINT |-> url]
Configs == {Config(t, "admin", "changeme", u) : t \in {None, "t1"}, u \in {None, Endpoint}}

\* Further values of N8N_ENDPOINT: the plain-http URL with a port of the
\* comment above N8N_ENDPOINT, and a value without a scheme.
HttpEndpoint == "http://10.0.0.5:5678/webhook/zendesk"
MalformedEndpoint == "n8n.internal"
ConfigsAll ==
    {Config(t, "admin", "changeme", u) :
        t \in {None, "t1"}, u \in {None, Endpoint, HttpEndpoint, MalformedEndpoint}}

\* str.split("://") and str.split("/") on the values above, as sequences
\* (Python's index 0 is the first element).
SplitScheme(url) ==
    CASE url = Endpoint          -> <<"https", "n8n.internal/webhook/zendesk">>
      [] url = HttpEndpoint      -> <<"http", "10.0.0.5:5678/webhook/zendesk">>
      [] url = MalformedEndpoint -> <<"n8n.internal">>

SplitPath(rest) ==
    CASE rest = "n8n.internal/webhook/zendesk"  -> <<"n8n.internal", "webhook", "zendesk">>
      [] rest = "10.0.0.5:5678/webhook/zendesk" -> <<"10.0.0.5:5678", "webhook", "zendesk">>

\* str.startswith("https")
StartsWithHttps(url) == url = Endpoint

\* httpx accepts the URL: it is a str with an http or https scheme.
UsableUrl(url) == url \in {Endpoint, HttpEndpoint}

-----------------------------------------------------------------------------
(* JSON: request.json() parses the inbound bytes with json.loads, and      *)
(* client.post(json=payload) encodes the payload with json.dumps.          *)
(* A JSON text is modelled as the sequence of the members of an object, in *)
(* the order written (names may repeat), or as a text that is not JSON.    *)

Member(k, v) == [name |-> k, value |-> v]
JsonText(ms) == [valid |-> TRUE, members |-> ms]
NotJson == [valid |-> FALSE, members |-> <<>>]

InboundBodies ==
    {NotJson,
     JsonText(<<>>),
     JsonText(<<Member("a", 1), Member("a", 2)>>),
     JsonText(<<Member("b", 2), Member("a", 1)>>)}

\* dict built by json.loads: one entry per name, in the order of the name's
\* first occurrence, holding the value of its last occurrence.
RECURSIVE DictSet(_, _, _)
DictSet(d, k, v) ==
    IF d = <<>> THEN <<Member(k, v)>>
    ELSE IF Head(d).name = k THEN <<Member(k, v)>> \o Tail(d)
    ELSE <<Head(d)>> \o DictSet(Tail(d), k, v)

RECURSIVE JsonLoadsMembers(_, _)
JsonLoadsMembers(ms, d) ==
    IF ms = <<>> THEN d
    ELSE JsonLoadsMembers(Tail(ms), DictSet(d, Head(ms).name, Head(ms).value))

JsonLoads(text) == JsonLoadsMembers(text.members, <<>>)

\* json.dumps of a dict: its entries, in dict order.
JsonDumps(d) == JsonText(d)

-----------------------------------------------------------------------------
(* Responses *)

JSONResponse(status, content) ==
    [status_code |-> status, content |-> content, headers |-> {}]

HTTPException(status, detail, headers) ==
    [status_code |-> status, content |-> [detail |-> detail], headers |-> headers]

\* No response sent yet.
NoResponse == [status_code |-> 0, content |-> [none |-> TRUE], headers |-> {}]

\* Starlette's answer to an exception that escapes the handler.
InternalServerError ==
    [status_code |-> 500, content |-> [text |-> "Internal Server Error"], headers |-> {}]

-----------------------------------------------------------------------------
(* Auth Gate *)

\* secrets.compare_digest on both fields; HTTPBasic raises the same 401 when
\* the Authorization header is missing or malformed.
CredentialsCorrect(cfg, credentials) ==
    LET is_username_correct == credentials.username = cfg.WEBHOOK_USERNAME
        is_password_correct == credentials.password = cfg.WEBHOOK_PASSWORD
    IN  credentials.present /\ is_username_correct /\ is_password_correct

Unauthorized ==
    HTTPException(401, "Incorrect username or password", {<<"WWW-Authenticate", "Basic">>})

\* HTTPBasic's 401 for a missing or malformed Authorization header.
Unauthenticated ==
    HTTPException(401, "Not authenticated", {<<"WWW-Authenticate", "Basic">>})

TokenMismatch_Never(cfg, x_relay_token) == FALSE

\* `if x_relay_token != RELAY_TOKEN`
TokenMismatch(cfg, x_relay_token) == x_relay_token # cfg.RELAY_TOKEN

Forbidden(cfg, x_relay_token) ==
    HTTPException(403,
                  "Invalid relay token. Expected: " \o Repr(cfg.RELAY_TOKEN)
                      \o ", Got: " \o Repr(x_relay_token),
                  {})

AuthGate_TokenFirst(cfg, creds, token) ==
    IF TokenMismatch(cfg, token) THEN Forbidden(cfg, token)
    ELSE IF ~creds.present THEN Unauthenticated
    ELSE IF ~CredentialsCorrect(cfg, creds) THEN Unauthorized
    ELSE NoResponse

\* The Auth Gate of POST /zendesk-webhook as one function of the configuration
\* and the request's credentials: the rejection it raises, or NoResponse when
\* the request passes (HTTPBasic and verify_credentials first, then the token
\* check).
AuthGate(cfg, creds, token) ==
    IF ~creds.present THEN Unauthenticated
    ELSE IF ~CredentialsCorrect(cfg, creds) THEN Unauthorized
    ELSE IF TokenMismatch(cfg, token) THEN Forbidden(cfg, token)
    ELSE NoResponse

-----------------------------------------------------------------------------
(* Forwarder *)

\* What can happen to the outbound call once client.post was entered with a
\* usable URL: the downstream answers, or the transport fails.
DownstreamStatuses == {200, 399, 400, 502}
DownstreamTexts == {"", "boom"}
Faults == {"connect_timeout", "read_timeout", "dns_failure", "refused",
           "malformed_response", "tls_error"}

Answered(status, text) == [kind |-> "response", status_code |-> status, text |-> text,
                           cls |-> "", msg |-> ""]
Raised(cls, msg) == [kind |-> "exception", status_code |-> 0, text |-> "",
                     cls |-> cls, msg |-> msg]
NoOutcome == [kind |-> "none", status_code |-> 0, text |-> "", cls |-> "", msg |-> ""]

\* The exception httpx raises for each transport fault.
HttpxRaises(fault) ==
    CASE fault = "connect_timeout"    -> Raised("ConnectTimeout", "timed out")
      [] fault = "read_timeout"       -> Raised("ReadTimeout", "timed out")
      [] fault = "dns_failure"        -> Raised("ConnectError", "Name or service not known")
      [] fault = "refused"            -> Raised("ConnectError", "Connection refused")
      [] fault = "malformed_response" -> Raised("RemoteProtocolError", "illegal status line")
      [] fault = "tls_error"          -> Raised("ConnectError", "CERTIFICATE_VERIFY_FAILED")

Outcomes ==
    {Answered(s, t) : s \in DownstreamStatuses, t \in DownstreamTexts}
        \cup {HttpxRaises(f) : f \in Faults}

\* What httpx raises for a URL it cannot use, before anything is sent.
UrlError(url) ==
    IF url = None THEN Raised("TypeError", "Invalid type for url")
    ELSE Raised("UnsupportedProtocol", "Request URL is missing an 'http://' or 'https://' protocol")

\* The classes an exception is an instance of (its class and its bases).
Mro(cls) ==
    CASE cls = "ConnectTimeout" ->
            {"ConnectTimeout", "TimeoutException", "TransportError", "Exception"}
      [] cls = "ReadTimeout" ->
            {"ReadTimeout", "TimeoutException", "TransportError", "Exception"}
      [] cls = "ConnectError" ->
            {"ConnectError", "NetworkError", "TransportError", "Exception"}
      [] cls = "RemoteProtocolError" ->
            {"RemoteProtocolError", "ProtocolError", "TransportError", "Exception"}
      [] OTHER -> {cls, "Exception"}

IsInstance(e, cls) == cls \in Mro(e.cls)

IsErrorStatus_Above300(status_code) == status_code >= 300

\* `if resp.status_code >= 400`
IsErrorStatus(status_code) == status_code >= 400

UpstreamErrorContent_NoDetails(resp) ==
    [error |-> "n8n relay failed", details |-> "", status_code |-> resp.status_code]

UpstreamErrorContent(resp) ==
    [error |-> "n8n relay failed", details |-> resp.text, status_code |-> resp.status_code]

Ok == [status_code |-> 200, content |-> [status |-> "ok"], headers |-> {}]

TimeoutResponse(e) ==
    JSONResponse(504, [error |-> "Connection timeout to n8n", details |-> e.msg,
                       type |-> "timeout_error"])

ConnectErrorResponse(e) ==
    JSONResponse(502, [error |-> "Failed to connect to n8n", details |-> e.msg,
                       type |-> "connection_error"])

UnexpectedResponse_Untyped(e) ==
    JSONResponse(502, [error |-> "Unexpected error when forwarding to n8n",
                       details |-> e.msg, type |-> "unexpected_error"])

UnexpectedResponse(e) ==
    JSONResponse(502, [error |-> "Unexpected error when forwarding to n8n",
                       details |-> e.msg, type |-> e.cls])

ClientErrorResponse(e) ==
    JSONResponse(502, [error |-> "Failed to create HTTP client", details |-> e.msg,
                       type |-> e.cls])

OnException_ConnectErrorAsTimeout(e) ==
    IF IsInstance(e, "ConnectTimeout") \/ IsInstance(e, "ConnectError")
    THEN TimeoutResponse(e)
    ELSE UnexpectedResponse(e)

\* The except clauses of the inner try, in order.
OnException(e) ==
    IF IsInstance(e, "ConnectTimeout") THEN TimeoutResponse(e)
    ELSE IF IsInstance(e, "ConnectError") THEN ConnectErrorResponse(e)
    ELSE UnexpectedResponse(e)

\* The response relay returns for the completion of client.post.
Classify(outcome) ==
    IF outcome.kind = "exception" THEN OnException(outcome)
    ELSE IF IsErrorStatus(outcome.status_code)
         THEN JSONResponse(502, UpstreamErrorContent(outcome))
         ELSE Ok

\* POST /zendesk-webhook as one function of the configuration, the request
\* (credentials, token, body) and what its outbound call met (whether the
\* client could be created, how the call ended).
Relay(cfg, creds, token, inbound, created, o) ==
    IF AuthGate(cfg, creds, token) # NoResponse THEN AuthGate(cfg, creds, token)
    ELSE IF ~inbound.valid THEN InternalServerError
    ELSE IF ~created THEN ClientErrorResponse(o)
    ELSE Classify(o)

\* The request client.post sends: the URL and the encoded json= argument.
OutboundRequest_ExtraField(cfg, payload) ==
    [url |-> cfg.N8N_ENDPOINT,
     content |-> JsonDumps(DictSet(payload, "relayed", 1))]

OutboundRequest(cfg, payload) ==
    [url |-> cfg.N8N_ENDPOINT, content |-> JsonDumps(payload)]

SendPost_Twice(sent, request) == Append(Append(sent, request), request)

\* One call of client.post: one request on the wire.
SendPost(sent, request) == Append(sent, request)

ClientAfterExit_Leaked(state) == state

\* __aexit__ of `async with httpx.AsyncClient(...) as client`.
ClientAfterExit(state) == IF state = "open" THEN "closed" ELSE state

-----------------------------------------------------------------------------
(* Diagnostics: GET /test-connection and GET /debug-ip *)

\* `N8N_ENDPOINT.split("://")[1].split("/")[0]`: the domain, or the exception
\* (AttributeError on None, IndexError without "://").
ParseDomain(url) ==
    IF url = None
    THEN [ok |-> FALSE, domain |-> "", error |-> "'NoneType' object has no attribute 'split'"]
    ELSE LET parts == SplitScheme(url)
         IN  IF Len(parts) < 2
             THEN [ok |-> FALSE, domain |-> "", error |-> "list index out of range"]
             ELSE [ok |-> TRUE, domain |-> SplitPath(parts[2])[1], error |-> ""]

\* `port = 443 if N8N_ENDPOINT.startswith("https") else 80`
ProbePort(url) == IF StartsWithHttps(url) THEN 443 ELSE 80

\* What the network can answer to each probe.  A domain that carries a port
\* ("10.0.0.5:5678") is no host name: resolving it fails.
IsHostName(domain) == domain = "n8n.internal"

DnsResolved == [ok |-> TRUE, ips |-> <<"10.0.0.5">>, error |-> ""]
DnsFailed == [ok |-> FALSE, ips |-> <<>>, error |-> "The DNS query name does not exist"]
DnsAnswers == {DnsResolved, DnsFailed}

ConnectCode(code) == [raised |-> FALSE, code |-> code, error |-> ""]
ConnectRaised == [raised |-> TRUE, code |-> 0, error |-> "Name or service not known"]
ConnectResults == {ConnectCode(0), ConnectCode(111), ConnectRaised}

HttpProbeOutcomes ==
    {Answered(200, ""), Answered(500, "boom"), HttpxRaises("refused")}

\* What the probes of one GET /test-connection can meet.
ProbeEnvs(url) ==
    LET p == ParseDomain(url)
    IN  {[dns |-> a, tcp |-> c, created |-> k, http |-> NoOutcome] :
            a \in (IF p.ok /\ IsHostName(p.domain) THEN DnsAnswers ELSE {DnsFailed}),
            c \in (IF p.ok /\ IsHostName(p.domain) THEN ConnectResults ELSE {ConnectRaised}),
            k \in BOOLEAN}

Failure(error) == [success |-> FALSE, error |-> error]

\* Test 1: DNS resolution.
DnsProbe(url, answer) ==
    LET p == ParseDomain(url)
    IN  IF ~p.ok THEN Failure(p.error)
        ELSE IF answer.ok THEN [success |-> TRUE, ips |-> answer.ips]
        ELSE Failure(answer.error)

\* Test 2: the socket after the probe: none when the domain could not be
\* parsed, closed when connect_ex returned (line 74), still open when
\* connect_ex raised and the except clause was entered.
TcpSocketAfter(url, conn) ==
    IF ~ParseDomain(url).ok THEN "none"
    ELSE IF conn.raised THEN "open"
    ELSE "closed"

\* Test 2: TCP connection.
TcpProbe(url, conn) ==
    LET p == ParseDomain(url)
    IN  IF ~p.ok THEN Failure(p.error)
        ELSE IF conn.raised THEN Failure(conn.error)
        ELSE [success |-> conn.code = 0,
              error |-> IF conn.code # 0
                        THEN "Connection failed with code " \o ToString(conn.code)
                        ELSE None]

\* Test 3: HTTP request; the entry for how client.get ended (or for the
\* exception of the client's construction or of an unusable URL).
HttpProbe(o) ==
    IF o.kind = "exception"
    THEN [success |-> FALSE, error |-> o.msg, error_type |-> o.cls]
    ELSE [success |-> TRUE, status_code |-> o.status_code, headers |-> {}]

\* The exception that ends test 3 before client.get is awaited, or NoOutcome.
HttpProbeEarly(url, created) ==
    IF ~created THEN Raised("SSLError", "cannot load CA bundle")
    ELSE IF ~UsableUrl(url) THEN UrlError(url)
    ELSE NoOutcome

ResultsAfterTcp_StopAtFailure(url, env) ==
    [n8n_endpoint |-> url,
     tests |-> IF DnsProbe(url, env.dns).success
               THEN ("dns" :> DnsProbe(url, env.dns)) @@ ("tcp" :> TcpProbe(url, env.tcp))
               ELSE ("dns" :> DnsProbe(url, env.dns))]

\* `results` after tests 1 and 2.
ResultsAfterTcp(url, env) ==
    [n8n_endpoint |-> url,
     tests |-> ("dns" :> DnsProbe(url, env.dns)) @@ ("tcp" :> TcpProbe(url, env.tcp))]

\* `results` with the entry of test 3.
WithHttp(results, entry) ==
    [results EXCEPT !.tests = ("http" :> entry) @@ results.tests]

HttpProbeRequest_Post(url) == [op |-> "http", method |-> "POST", target |-> url]

\* The request test 3 puts on the wire: client.get(N8N_ENDPOINT).
HttpProbeRequest(url) == [op |-> "http", method |-> "GET", target |-> url]

\* The network operations tests 1 and 2 perform.
DnsQuery(domain) == [op |-> "dns", method |-> "A", target |-> domain]
TcpConnect(domain, port) == [op |-> "tcp", method |-> ToString(port), target |-> domain]

ProbesAfterTcp(url) ==
    LET p == ParseDomain(url)
    IN  IF p.ok THEN {DnsQuery(p.domain), TcpConnect(p.domain, ProbePort(url))} ELSE {}

\* GET /test-connection as one function of the configuration and of what its
\* probes met.
TestConnection(cfg, env) ==
    LET url == cfg.N8N_ENDPOINT
        early == HttpProbeEarly(url, env.created)
    IN  WithHttp(ResultsAfterTcp(url, env),
                 HttpProbe(IF early.kind = "exception" THEN early ELSE env.http))

\* A GET /debug-ip request: the peer address and the proxy headers it carries.
DebugIpRequests ==
    {[client_ip |-> "203.0.113.7", x_forwarded_for |-> f, x_real_ip |-> i] :
        f \in {None, "198.51.100.1"}, i \in {None, "198.51.100.1"}}

\* dict(request.headers)
AllHeaders(req) ==
    (IF req.x_forwarded_for = None THEN {} ELSE {<<"x-forwarded-for", req.x_forwarded_for>>})
        \cup (IF req.x_real_ip = None THEN {} ELSE {<<"x-real-ip", req.x_real_ip>>})

\* GET /debug-ip as a function of the request.
DebugIp(req) ==
    [client_ip |-> req.client_ip, x_forwarded_for |-> req.x_forwarded_for,
     x_real_ip |-> req.x_real_ip, all_headers |-> AllHeaders(req)]

NoEnv == [dns |-> DnsFailed, tcp |-> ConnectRaised, created |-> FALSE, http |-> NoOutcome]
NoDebugIpRequest == [client_ip |-> "", x_forwarded_for |-> None, x_real_ip |-> None]
NoReport == [none |-> TRUE]

-----------------------------------------------------------------------------
(* State *)

VARIABLES
    config,         \* RELAY_TOKEN, WEBHOOK_USERNAME, WEBHOOK_PASSWORD, N8N_ENDPOINT
    pc,             \* where the handling of each request stands
    credentials,    \* the request's Basic credentials
    x_relay_token,  \* the request's X-Relay-Token header
    body,           \* the inbound body, once read
    payload,        \* the dict request.json() returned
    client,         \* the request's AsyncClient: "none", "open", "closed"
    sent,           \* the outbound POSTs issued for the request, in order
    outcome,        \* how the request's client.post ended
    response,       \* the response sent to the caller
    dpc,            \* where the handling of each diagnostic request stands
    endpoint,       \* the route of the diagnostic request
    env,            \* what the probes of the diagnostic request met
    dreq,           \* the GET /debug-ip request
    report,         \* `results` of test_connection, or the dict of debug_ip
    sock,           \* the socket of test 2: "none", "open", "closed"
    dclient,        \* the AsyncClient of test 3: "none", "open", "closed"
    probes          \* the network operations performed for the request

relayvars == <<pc, credentials, x_relay_token, body, payload, client, sent,
               outcome, response>>

diagvars == <<dpc, endpoint, env, dreq, report, sock, dclient, probes>>

vars == <<config, relayvars, diagvars>>

inputs == <<credentials, x_relay_token>>

\* No request has arrived yet.
NoRequests ==
    /\ pc = [r \in Reqs |-> "idle"]
    /\ credentials = [r \in Reqs |-> NoBasic]
    /\ x_relay_token = [r \in Reqs |-> None]
    /\ body = [r \in Reqs |-> NotJson]
    /\ payload = [r \in Reqs |-> <<>>]
    /\ client = [r \in Reqs |-> "none"]
    /\ sent = [r \in Reqs |-> <<>>]
    /\ outcome = [r \in Reqs |-> NoOutcome]
    /\ response = [r \in Reqs |-> NoResponse]
    /\ dpc = [d \in Diags |-> "idle"]
    /\ endpoint = [d \in Diags |-> "none"]
    /\ env = [d \in Diags |-> NoEnv]
    /\ dreq = [d \in Diags |-> NoDebugIpRequest]
    /\ report = [d \in Diags |-> NoReport]
    /\ sock = [d \in Diags |-> "none"]
    /\ dclient = [d \in Diags |-> "none"]
    /\ probes = [d \in Diags |-> {}]

Init ==
    /\ config \in Configs
    /\ NoRequests

\* The same, over every value of N8N_ENDPOINT.
InitAll ==
    /\ config \in ConfigsAll
    /\ NoRequests

Respond_Shared(r, resp) ==
    /\ pc' = [pc EXCEPT ![r] = "done"]
    /\ response' = [q \in Reqs |-> resp]

\* The handler (or the framework) ends the request with response `resp`.
Respond(r, resp) ==
    /\ pc' = [pc EXCEPT ![r] = "done"]
    /\ response' = [response EXCEPT ![r] = resp]

\* A request arrives and FastAPI resolves Depends(verify_credentials).
verify_credentials(r) ==
    /\ pc[r] = "idle"
    /\ \E c \in BasicInputs, t \in HeaderTokens :
        /\ credentials' = [credentials EXCEPT ![r] = c]
        /\ x_relay_token' = [x_relay_token EXCEPT ![r] = t]
        /\ IF CredentialsCorrect(config, c)
           THEN /\ pc' = [pc EXCEPT ![r] = "relay"]
                /\ UNCHANGED response
           ELSE Respond(r, AuthGate(config, c, t))
    /\ UNCHANGED <<config, body, payload, client, sent, outcome>>
    /\ UNCHANGED diagvars

\* relay, step 1: validate the secret header.
relay_validate_token(r) ==
    /\ pc[r] = "relay"
    /\ IF TokenMismatch(config, x_relay_token[r])
       THEN Respond(r, AuthGate(config, credentials[r], x_relay_token[r]))
       ELSE /\ pc' = [pc EXCEPT ![r] = "read_json"]
            /\ UNCHANGED response
    /\ UNCHANGED <<config, inputs, body, payload, client, sent, outcome>>
    /\ UNCHANGED diagvars

\* relay, step 2: payload = await request.json(); a body that is not JSON
\* raises JSONDecodeError outside any try block.
relay_read_json(r) ==
    /\ pc[r] = "read_json"
    /\ \E b \in InboundBodies :
        /\ body' = [body EXCEPT ![r] = b]
        /\ IF b.valid
           THEN /\ payload' = [payload EXCEPT ![r] = JsonLoads(b)]
                /\ pc' = [pc EXCEPT ![r] = "open_client"]
                /\ UNCHANGED response
           ELSE /\ Respond(r, InternalServerError)
                /\ UNCHANGED payload
    /\ UNCHANGED <<config, inputs, client, sent, outcome>>
    /\ UNCHANGED diagvars

\* relay, step 4: async with httpx.AsyncClient(verify=True, timeout=30.0);
\* a failure to construct or enter the client is caught by the outer except.
relay_open_client(r) ==
    /\ pc[r] = "open_client"
    /\ \E created \in BOOLEAN :
        IF created
        THEN /\ client' = [client EXCEPT ![r] = "open"]
             /\ pc' = [pc EXCEPT ![r] = "post"]
             /\ UNCHANGED <<outcome, response>>
        ELSE /\ outcome' = [outcome EXCEPT ![r] = Raised("SSLError", "cannot load CA bundle")]
             /\ Respond(r, ClientErrorResponse(outcome'[r]))
             /\ UNCHANGED client
    /\ UNCHANGED <<config, inputs, body, payload, sent>>
    /\ UNCHANGED diagvars

\* relay: resp = await client.post(N8N_ENDPOINT, json=payload, ...).  With
\* N8N_ENDPOINT unset or without a scheme, httpx raises for the URL before
\* anything is sent; the inner `except Exception` answers and the client is
\* closed.
relay_post(r) ==
    /\ pc[r] = "post"
    /\ IF ~UsableUrl(config.N8N_ENDPOINT)
       THEN /\ outcome' = [outcome EXCEPT ![r] = UrlError(config.N8N_ENDPOINT)]
            /\ client' = [client EXCEPT ![r] = ClientAfterExit(client[r])]
            /\ Respond(r, OnException(outcome'[r]))
            /\ UNCHANGED sent
       ELSE /\ sent' = [sent EXCEPT ![r] = SendPost(sent[r], OutboundRequest(config, payload[r]))]
            /\ pc' = [pc EXCEPT ![r] = "await_post"]
            /\ UNCHANGED <<outcome, client, response>>
    /\ UNCHANGED <<config, inputs, body, payload>>
    /\ UNCHANGED diagvars

\* relay: client.post completes with a response or an exception; the handler
\* classifies it, leaves the `async with` block and returns.
relay_complete(r) ==
    /\ pc[r] = "await_post"
    /\ \E o \in Outcomes :
        /\ outcome' = [outcome EXCEPT ![r] = o]
        /\ client' = [client EXCEPT ![r] = ClientAfterExit(client[r])]
        /\ Respond(r, Classify(o))
    /\ UNCHANGED <<config, inputs, body, payload, sent>>
    /\ UNCHANGED diagvars

\* GET /test-connection up to `await client.get(N8N_ENDPOINT)`: tests 1 and 2
\* run without suspending, then test 3 creates its client and issues the GET;
\* when test 3 ends before the GET (no client, unusable URL) the handler
\* returns at once.
test_connection(d) ==
    /\ dpc[d] = "idle"
    /\ \E e \in ProbeEnvs(config.N8N_ENDPOINT) :
        LET url == config.N8N_ENDPOINT
            early == HttpProbeEarly(url, e.created)
        IN  /\ endpoint' = [endpoint EXCEPT ![d] = "test_connection"]
            /\ env' = [env EXCEPT ![d] = e]
            /\ sock' = [sock EXCEPT ![d] = TcpSocketAfter(url, e.tcp)]
            /\ IF early.kind = "exception"
               THEN /\ report' = [report EXCEPT ![d] =
                                    WithHttp(ResultsAfterTcp(url, e), HttpProbe(early))]
                    /\ dclient' = [dclient EXCEPT ![d] =
                                     IF e.created THEN ClientAfterExit("open") ELSE "none"]
                    /\ probes' = [probes EXCEPT ![d] = ProbesAfterTcp(url)]
                    /\ dpc' = [dpc EXCEPT ![d] = "done"]
               ELSE /\ report' = [report EXCEPT ![d] = ResultsAfterTcp(url, e)]
                    /\ dclient' = [dclient EXCEPT ![d] = "open"]
                    /\ probes' = [probes EXCEPT ![d] =
                                    ProbesAfterTcp(url) \cup {HttpProbeRequest(url)}]
                    /\ dpc' = [dpc EXCEPT ![d] = "await_get"]
    /\ UNCHANGED <<config, relayvars, dreq>>

\* GET /test-connection: client.get completes with a response or an
\* exception; test 3 records it, the client is closed, results is returned.
test_connection_complete(d) ==
    /\ dpc[d] = "await_get"
    /\ \E o \in HttpProbeOutcomes :
        /\ env' = [env EXCEPT ![d].http = o]
        /\ report' = [report EXCEPT ![d] = WithHttp(report[d], HttpProbe(o))]
        /\ dclient' = [dclient EXCEPT ![d] = ClientAfterExit(dclient[d])]
        /\ dpc' = [dpc EXCEPT ![d] = "done"]
    /\ UNCHANGED <<config, relayvars, endpoint, dreq, sock, probes>>

\* GET /debug-ip
debug_ip(d) ==
    /\ dpc[d] = "idle"
    /\ \E q \in DebugIpRequests :
        /\ endpoint' = [endpoint EXCEPT ![d] = "debug_ip"]
        /\ dreq' = [dreq EXCEPT ![d] = q]
        /\ report' = [report EXCEPT ![d] = DebugIp(q)]
        /\ dpc' = [dpc EXCEPT ![d] = "done"]
    /\ UNCHANGED <<config, relayvars, env, sock, dclient, probes>>

Next ==
    \E r \in Reqs :
        \/ verify_credentials(r)
        \/ relay_validate_token(r)
        \/ relay_read_json(r)
        \/ relay_open_client(r)
        \/ relay_post(r)
        \/ relay_complete(r)

Spec == Init /\ [][Next]_vars

\* One relay request handled concurrently with the diagnostic requests, over
\* every value of N8N_ENDPOINT.
NextAll ==
    \/ \E r \in {1} :
        \/ verify_credentials(r)
        \/ relay_validate_token(r)
        \/ relay_read_json(r)
        \/ relay_open_client(r)
        \/ relay_post(r)
        \/ relay_complete(r)
    \/ \E d \in Diags :
        \/ test_connection(d)
        \/ test_connection_complete(d)
        \/ debug_ip(d)

SpecAll == InitAll /\ [][NextAll]_vars

TypeOK ==
    /\ config \in ConfigsAll
    /\ \A d \in Diags :
        /\ dpc[d] \in {"idle", "await_get", "done"}
        /\ endpoint[d] \in {"none", "test_connection", "debug_ip"}
        /\ sock[d] \in {"none", "open", "closed"}
        /\ dclient[d] \in {"none", "open", "closed"}
    /\ \A r \in Reqs :
        /\ pc[r] \in {"idle", "relay", "read_json", "open_client", "post", "await_post", "done"}
        /\ client[r] \in {"none", "open", "closed"}
        /\ Len(sent[r]) \in 0..2

-----------------------------------------------------------------------------
(* Properties *)

Done(r) == pc[r] = "done"

\* The request's Basic credentials are missing or differ from the configured ones.
BasicBad(r) ==
    \/ ~credentials[r].present
    \/ credentials[r].username # config.WEBHOOK_USERNAME
    \/ credentials[r].password # config.WEBHOOK_PASSWORD

\* The request was answered by the Auth Gate.
RejectedResponse(r) == response[r].status_code \in {401, 403}

\* The request got past both credential checks.
PassedGate(r) == pc[r] \notin {"idle", "relay"} /\ ~RejectedResponse(r)

\* C1: a request the Auth Gate rejects (its Basic credentials or its
\* X-Relay-Token differ from the configured ones, or it was answered 401 or
\* 403) has no outbound POST issued on its behalf, in any state.
C1_NoOutboundForRejected ==
    \A r \in Reqs :
        (pc[r] # "idle" /\ (BasicBad(r) \/ x_relay_token[r] # config.RELAY_TOKEN
                             \/ RejectedResponse(r)))
            => sent[r] = <<>>

C1_Witness ==
    \E r1, r2 \in Reqs :
        /\ Done(r1) /\ response[r1].status_code = 401
        /\ Done(r2) /\ response[r2].status_code = 403

\* C2: every request whose credentials are incorrect or missing (Basic
\* credentials wrong or absent, X-Relay-Token wrong or absent) ends with the
\* rejection code of a credential that failed, 401 for Basic and 403 for the
\* token, whatever the configuration.
C2_BadCredentialsRejected ==
    \A r \in Reqs :
        LET tokenBad == x_relay_token[r] = None \/ x_relay_token[r] # config.RELAY_TOKEN
        IN  (Done(r) /\ (BasicBad(r) \/ tokenBad))
                => response[r].status_code \in
                       ((IF BasicBad(r) THEN {401} ELSE {}) \cup (IF tokenBad THEN {403} ELSE {}))

\* Configurations that differ from cfg only in the values of the secrets.
OtherSecrets(cfg) ==
    {Config(t, u, p, cfg.N8N_ENDPOINT) :
        t \in {None, "t1", "t2"}, u \in {"admin", "zendesk"}, p \in {"changeme", "wrong"}}

\* C3: a rejection response is the same under every configuration of the
\* secrets that rejects the request at the same check (with the same status),
\* so it reveals no configured secret.
C3_RejectionIndependentOfSecrets ==
    \A r \in Reqs :
        \A other \in OtherSecrets(config) :
            LET there == AuthGate(other, credentials[r], x_relay_token[r])
            IN  (Done(r) /\ RejectedResponse(r)
                    /\ there.status_code = response[r].status_code)
                    => there = response[r]

\* The outbound call of the request reached the network: its body was JSON,
\* its client was created and the endpoint is configured.
CallIssued(r) == body[r].valid /\ client[r] # "none" /\ UsableUrl(config.N8N_ENDPOINT)

\* C4 as stated: every request that passes the Auth Gate has exactly one
\* outbound POST when its response is sent, and no request has more than one.
C4_ExactlyOnePost ==
    \A r \in Reqs :
        /\ Len(sent[r]) <= 1
        /\ (Done(r) /\ PassedGate(r)) => Len(sent[r]) = 1

\* C4 as amended: no request has more than one outbound POST; an authorized
\* request that is answered has exactly one, to the configured endpoint, when
\* its body was JSON, its client was created and the endpoint is configured,
\* and none otherwise.
C4_AtMostOnePost ==
    \A r \in Reqs :
        /\ Len(sent[r]) <= 1
        /\ \A i \in 1..Len(sent[r]) : sent[r][i].url = config.N8N_ENDPOINT
        /\ (Done(r) /\ PassedGate(r)) =>
               Len(sent[r]) = (IF CallIssued(r) THEN 1 ELSE 0)

C4_Witness ==
    \E r1, r2 \in Reqs :
        /\ Done(r1) /\ response[r1].status_code = 504 /\ Len(sent[r1]) = 1
        /\ Done(r2) /\ PassedGate(r2) /\ Len(sent[r2]) = 0

\* C5: a request with correct credentials whose outbound POST is answered
\* with a status below 400 gets status 200 and body {"status": "ok"},
\* whatever the downstream body.
C5_SuccessIsOk ==
    \A r \in Reqs :
        (Done(r) /\ ~BasicBad(r) /\ x_relay_token[r] = config.RELAY_TOKEN
            /\ outcome[r].kind = "response" /\ outcome[r].status_code < 400)
            => /\ response[r].status_code = 200
               /\ response[r].content = [status |-> "ok"]
               /\ Len(sent[r]) = 1

C5_Witness ==
    \E r1, r2 \in Reqs :
        /\ Done(r1) /\ outcome[r1] = Answered(399, "boom") /\ response[r1].status_code = 200
        /\ Done(r2) /\ outcome[r2] = Answered(200, "") /\ response[r2].status_code = 200

\* C6: an authorized request whose outbound POST is answered with a status of
\* 400 or above gets status 502, with the downstream body in details and the
\* downstream status in status_code.
C6_UpstreamErrorIs502 ==
    \A r \in Reqs :
        (Done(r) /\ PassedGate(r) /\ outcome[r].kind = "response"
            /\ outcome[r].status_code >= 400)
            => /\ response[r].status_code = 502
               /\ DOMAIN response[r].content = {"error", "details", "status_code"}
               /\ response[r].content.details = outcome[r].text
               /\ response[r].content.status_code = outcome[r].status_code

C6_Witness ==
    \E r \in Reqs :
        /\ Done(r) /\ outcome[r] = Answered(400, "boom")
        /\ response[r].status_code = 502

\* C7: an authorized request whose outbound call times out, while connecting
\* or while waiting for the response, gets status 504 and type "timeout_error".
C7_TimeoutIs504 ==
    \A r \in Reqs :
        (Done(r) /\ PassedGate(r) /\ outcome[r].kind = "exception"
            /\ IsInstance(outcome[r], "TimeoutException"))
            => /\ response[r].status_code = 504
               /\ response[r].content.type = "timeout_error"

\* C8: an authorized request whose outbound call fails because the host does
\* not resolve or refuses the connection gets status 502 and type
\* "connection_error".
C8_ConnectFailureIs502 ==
    \A r \in Reqs :
        (Done(r) /\ PassedGate(r)
            /\ outcome[r] \in {HttpxRaises("dns_failure"), HttpxRaises("refused")})
            => /\ response[r].status_code = 502
               /\ response[r].content.type = "connection_error"

C8_Witness ==
    \E r1, r2 \in Reqs :
        /\ Done(r1) /\ outcome[r1] = HttpxRaises("dns_failure")
        /\ Done(r2) /\ outcome[r2] = HttpxRaises("refused")
        /\ response[r1].status_code = 502 /\ response[r2].status_code = 502

\* A JSON text as the relay's JSON codec writes it back.
Reencode(text) == JsonDumps(JsonLoads(text))

DistinctNames(text) ==
    \A i, j \in 1..Len(text.members) :
        text.members[i].name = text.members[j].name => i = j

\* C9: the JSON carried by every outbound POST equals the inbound body after
\* JSON re-encoding, and is the inbound body itself, member for member, when
\* its names are distinct.
C9_PayloadUnchanged ==
    \A r \in Reqs :
        \A i \in 1..Len(sent[r]) :
            /\ body[r].valid
            /\ Reencode(sent[r][i].content) = Reencode(body[r])
            /\ DistinctNames(body[r]) => sent[r][i].content = body[r]

C9_Witness ==
    \E r1, r2 \in Reqs :
        /\ Len(sent[r1]) = 1 /\ body[r1] = JsonText(<<Member("b", 2), Member("a", 1)>>)
        /\ Len(sent[r2]) = 1 /\ body[r2] = JsonText(<<Member("a", 1), Member("a", 2)>>)

OpenClients == {r \in Reqs : client[r] = "open"}
InFlight == {r \in Reqs : pc[r] \notin {"idle", "done"}}

\* C10: an open outbound client belongs to a request that is being handled:
\* every answered request has its client closed (or never created), so the
\* open clients are at most the requests in flight and none when none is.
C10_ClientScopedToRequest ==
    /\ OpenClients \subseteq InFlight
    /\ Cardinality(OpenClients) <= Cardinality(InFlight)
    /\ InFlight = {} => OpenClients = {}

C10_Witness ==
    \E r1, r2 \in Reqs :
        /\ Done(r1) /\ client[r1] = "closed" /\ response[r1].status_code = 200
        /\ Done(r2) /\ client[r2] = "closed" /\ response[r2].status_code = 504

\* The variables of relay request r, and of diagnostic request d.
RelayState(r) ==
    <<pc[r], credentials[r], x_relay_token[r], body[r], payload[r], client[r],
      sent[r], outcome[r], response[r]>>

DiagState(d) ==
    <<dpc[d], endpoint[d], env[d], dreq[d], report[d], sock[d], dclient[d], probes[d]>>

C11_Alone ==
    /\ \A r \in Reqs :
        Done(r) => response[r] = Relay(config, credentials[r], x_relay_token[r],
                                       body[r], client[r] # "none", outcome[r])
    /\ \A d \in Diags :
        dpc[d] = "done" =>
            report[d] = (IF endpoint[d] = "test_connection"
                         THEN TestConnection(config, env[d])
                         ELSE DebugIp(dreq[d]))

C11_Step ==
    /\ config' = config
    /\ \A r \in Reqs : pc'[r] = pc[r] => RelayState(r)' = RelayState(r)
    /\ \A d \in Diags : dpc'[d] = dpc[d] => DiagState(d)' = DiagState(d)
    /\ \A r \in Reqs : pc[r] = "done" => RelayState(r)' = RelayState(r)
    /\ \A d \in Diags : dpc[d] = "done" => DiagState(d)' = DiagState(d)

\* C11: under every interleaving of a relay request with diagnostic requests
\* the configuration is never modified, a step taken for one request changes
\* nothing of another request, and every answered request has the response
\* it gets when handled alone with the same credentials, body and downstream
\* outcome.
C11_Isolation == []C11_Alone /\ [][C11_Step]_vars

C11_Witness ==
    \E r \in Reqs, d \in Diags :
        /\ Done(r) /\ response[r].status_code = 200
        /\ dpc[d] = "done" /\ endpoint[d] = "test_connection" /\ env[d].http.kind = "response"

ProbeNames == {"dns", "tcp", "http"}

\* C12: the report of every answered GET /test-connection has exactly the
\* entries dns, tcp and http, each with a success flag, and the dns and tcp
\* entries are those of the probe's own outcome, whatever the other probes met
\* and whatever N8N_ENDPOINT is (unset and malformed included).
C12_ThreeProbes ==
    \A d \in Diags :
        (dpc[d] = "done" /\ endpoint[d] = "test_connection")
            => /\ DOMAIN report[d].tests = ProbeNames
               /\ \A k \in ProbeNames : report[d].tests[k].success \in BOOLEAN
               /\ report[d].tests["dns"] = DnsProbe(config.N8N_ENDPOINT, env[d].dns)
               /\ report[d].tests["tcp"] = TcpProbe(config.N8N_ENDPOINT, env[d].tcp)
               /\ ParseDomain(config.N8N_ENDPOINT).ok
                      => \A op \in {"dns", "tcp"} : \E p \in probes[d] : p.op = op

C12_Witness ==
    \E d \in Diags :
        /\ dpc[d] = "done" /\ endpoint[d] = "test_connection"
        /\ ~report[d].tests["dns"].success
        /\ report[d].tests["tcp"].success
        /\ ~report[d].tests["http"].success

C13_Step ==
    /\ \A d \in Diags : \A p \in probes'[d] : p.method # "POST"
    /\ diagvars' # diagvars => (config' = config /\ relayvars' = relayvars)
    /\ relayvars' # relayvars => (config' = config /\ diagvars' = diagvars)

\* C13: no step puts a POST among the network operations of a diagnostic
\* request, a step of a diagnostic request changes neither the configuration
\* nor anything of a relay request (its outbound POSTs included), and a step
\* of a relay request changes nothing of a diagnostic request (its probes
\* included).
C13_DiagnosticsSeparate == [][C13_Step]_vars

C13_Witness ==
    \E r \in Reqs, d \in Diags :
        /\ Len(sent[r]) = 1
        /\ dpc[d] = "done" /\ HttpProbeRequest(config.N8N_ENDPOINT) \in probes[d]

\* The outbound attempt of the request ended in an exception.
AttemptFailed(r) == Done(r) /\ PassedGate(r) /\ outcome[r].kind = "exception"

TypedUnexpected(r) ==
    /\ response[r].status_code = 502
    /\ response[r].content.type = outcome[r].cls
    /\ response[r].content.details = outcome[r].msg

\* C14 as stated: an outbound attempt that fails otherwise than by a connect
\* timeout or a connect failure (host not resolved, connection refused) is
\* answered 502 with the failure's class name as type and its reason as
\* details.
C14_OtherFailuresTyped ==
    \A r \in Reqs :
        (AttemptFailed(r)
            /\ outcome[r] \notin {HttpxRaises("connect_timeout"), HttpxRaises("dns_failure"),
                                  HttpxRaises("refused")})
            => TypedUnexpected(r)

\* C14 as amended: an outbound attempt that raises an exception that is
\* neither an httpx.ConnectTimeout nor an httpx.ConnectError is answered 502
\* with the exception's class name as type and its reason as details; a TLS
\* failure, which httpx raises as ConnectError, is answered 502 with type
\* "connection_error".
C14_OtherExceptionsTyped ==
    \A r \in Reqs :
        /\ (AttemptFailed(r) /\ ~IsInstance(outcome[r], "ConnectTimeout")
                /\ ~IsInstance(outcome[r], "ConnectError"))
               => TypedUnexpected(r)
        /\ (AttemptFailed(r) /\ outcome[r] = HttpxRaises("tls_error"))
               => /\ response[r].status_code = 502
                  /\ response[r].content.type = "connection_error"

C14_Witness ==
    \E r1, r2 \in Reqs :
        /\ AttemptFailed(r1) /\ outcome[r1] = HttpxRaises("malformed_response")
        /\ AttemptFailed(r2) /\ client[r2] = "none"

\* C15: every answered request that passed the Auth Gate has status 200, 502
\* or 504.
C15_OutcomeStatus ==
    \A r \in Reqs :
        (Done(r) /\ PassedGate(r)) => response[r].status_code \in {200, 502, 504}

\* C16: a request with wrong or missing Basic credentials is answered 401
\* with WWW-Authenticate: Basic whatever its token; a 403 is given only to a
\* request whose Basic credentials are correct; an outbound POST is issued
\* only for a request that passed both checks.
C16_BasicBeforeToken ==
    \A r \in Reqs :
        /\ (pc[r] # "idle" /\ BasicBad(r))
               => /\ Done(r)
                  /\ response[r].status_code = 401
                  /\ <<"WWW-Authenticate", "Basic">> \in response[r].headers
        /\ response[r].status_code = 403
               => (~BasicBad(r) /\ x_relay_token[r] # config.RELAY_TOKEN)
        /\ sent[r] # <<>>
               => (~BasicBad(r) /\ x_relay_token[r] = config.RELAY_TOKEN)

C16_Witness ==
    \E r1, r2 \in Reqs :
        /\ Done(r1) /\ BasicBad(r1) /\ x_relay_token[r1] # config.RELAY_TOKEN
        /\ response[r1].status_code = 401
        /\ Done(r2) /\ response[r2].status_code = 403

\* C17: once the TCP probe of GET /test-connection has recorded its result,
\* its socket is not open.
C17_SocketReleased ==
    \A d \in Diags :
        (endpoint[d] = "test_connection" /\ "tcp" \in DOMAIN report[d].tests)
            => sock[d] # "open"

====
